---- MODULE Spec2Model ----
(***************************************************************************)
(* comic-repack: the two-level bounded pipeline of main.rs (main,          *)
(* open_inout, convert_all), the entry filters of paths.rs                 *)
(* (filter_entries, remove_root_entry), the output path mapping            *)
(* (sanitize_path, output_archive_path), the transform of one entry        *)
(* (transcode), the entries of one file job (archive_reader, convert_all), *)
(* the opening of the output file (ArchiveWriter::open_file) and the       *)
(* resolution of the input specs (validate_and_unglob).                    *)
(*                                                                         *)
(* A string is a sequence of atoms.  The atoms "/" and "." are the two     *)
(* characters the code looks at; every other atom stands for a run of      *)
(* ordinary characters, so that equality of sequences is equality of       *)
(* strings.                                                                *)
(***************************************************************************)
EXTENDS Integers, Sequences, FiniteSets, TLC

VARIABLES
    \* ---- the pipeline (main.rs) ----
    mainpc,         \* position of main: "resolve", "outdir", "start", "stream",
                    \* "complete"; "resolve_failed", "outdir_failed" when main
                    \* returned the error
    jobs_fs,        \* args.jobs_fs, the file-level budget F
    cli_jobs,       \* args.config.jobs as parsed from the command line
    jobs,           \* args.config.jobs as convert_all reads it
    next_source,    \* index of the next source the outer stream will hand out
    job,            \* job[f]: position of the file job of source f
    entry,          \* entry[f][e]: position of the entry task e of job f
    appended,       \* appended[f][e]: write_all calls for e that returned Ok
    opened,         \* opened[f]: writers opened for job f
    closed,         \* closed[f]: calls of ArchiveWriter::close on job f's writer
    notified,       \* notified[f]: the results of f handed to notify, in order
    bar_completed,  \* bar_completed.inc(1) calls so far
    readres,        \* readres[f][e]: how read_file went for entry e ("none" before)
    attempts,       \* attempts[f][e]: calls of write_all for entry e
    failures,       \* failures[f][e]: error! lines logged for entry e
    \* ---- an entry-name iterator adaptor (paths.rs) ----
    names,          \* the entry names the underlying iterator yields
    pos,            \* index of the next name to be pulled
    kept,           \* the names the adaptor has yielded so far
    root,           \* remove_root_entry: the closure's `root`   (<<>> is None)
    possible,       \* remove_root_entry: the closure's `possible`
    \* ---- output_archive_path (paths.rs) ----
    source, outdir, archive, output,
    \* ---- transcode (main.rs) ----
    cfg,            \* the Config: format and quality
    tname,          \* the entry name given to transcode
    tdata,          \* the entry's bytes
    tresult,        \* what transcode returned (<<>> before the call)
    \* ---- one file job seen from its entries (archive_reader, convert_all) ----
    apc,            \* "open", "convert", "closed"
    container,      \* the entry names archive.list_file_names() yields
    working,        \* inout.entries: the names archive_reader returns
    alog,           \* alog[i]: the bytes read for working[i], how transcode ended
    written,        \* the names given to write_all, in order
    \* ---- ArchiveWriter::open_file on a shared file system (main.rs) ----
    force,          \* cfg.force
    osrc,           \* osrc[j]: the source path of file job j
    rres,           \* rres[j]: how archive_reader went for job j ("none" before)
    fs0,            \* fs0[p]: the file at path p before the run
    fs,             \* fs[p]: the file at path p now
    target,         \* target[j]: the output path of file job j, made absolute
    wpc,            \* wpc[j]: position of job j in open_inout / open_file
    saw,            \* saw[j]: job j's out_exists (<<>> before try_exists)
    touched,        \* touched[p]: the jobs that created, truncated or wrote p
    truncated,      \* the jobs whose open truncated an existing file
    \* ---- validate_and_unglob (paths.rs) ----
    files,          \* the paths that exist
    specs,          \* args.input
    sources,        \* what validate_and_unglob returned
    again           \* what it returned when given its own result

evars == <<readres, attempts, failures>>
pvars == <<mainpc, jobs_fs, cli_jobs, jobs, next_source, job, entry, appended,
           opened, closed, notified, bar_completed, evars>>
nvars == <<names, pos, kept, root, possible>>
ovars == <<source, outdir, archive, output>>
tvars == <<cfg, tname, tdata, tresult>>
avars == <<apc, container, working, alog, written>>
wvars == <<force, osrc, rres, fs0, fs, target, wpc, saw, touched, truncated>>
rvars == <<files, specs, sources, again>>
xvars == <<tvars, avars, wvars, rvars>>
vars  == <<pvars, nvars, ovars, xvars>>

(***************************************************************************)
(* Bounds of the model.                                                    *)
(***************************************************************************)
MaxPathLen == 5
MaxFilterLen == 2
MaxRootLen == 3
NumFiles == 3
MaxEntries == 3
MaxF == 2
MaxJobs == 4

(***************************************************************************)
(* Option<T>: None is <<>>, Some(x) is <<x>>.                              *)
(***************************************************************************)
None == <<>>
Some(x) == <<x>>

(***************************************************************************)
(* std::path on Unix, as far as paths.rs uses it.                          *)
(***************************************************************************)
RECURSIVE Segments(_)
\* s split at every "/" (empty segments included)
Segments(s) ==
    IF s = <<>> THEN << <<>> >>
    ELSE LET rest == Segments(Tail(s)) IN
         IF Head(s) = "/" THEN << <<>> >> \o rest
         ELSE << <<Head(s)>> \o Head(rest) >> \o Tail(rest)

is_absolute(p) == p # <<>> /\ p[1] = "/"

\* One component: its kind and its as_os_str().
Comp(k, s) == [kind |-> k, s |-> s]

RECURSIVE BodyComponents(_, _)
\* segs[i..]: empty segments and "." are skipped, ".." is ParentDir
BodyComponents(segs, i) ==
    IF i > Len(segs) THEN <<>>
    ELSE LET g == segs[i] IN
         (IF g = <<>> \/ g = <<".">> THEN <<>>
          ELSE IF g = <<".", ".">> THEN << Comp("ParentDir", g) >>
          ELSE << Comp("Normal", g) >>) \o BodyComponents(segs, i + 1)

\* Path::components(): RootDir for a leading "/", CurDir only for a leading "."
components(p) ==
    LET segs == Segments(p) IN
    IF p = <<>> THEN <<>>
    ELSE IF is_absolute(p) THEN << Comp("RootDir", <<"/">>) >> \o BodyComponents(segs, 2)
    ELSE IF segs[1] = <<".">> THEN << Comp("CurDir", <<".">>) >> \o BodyComponents(segs, 2)
    ELSE BodyComponents(segs, 1)

\* Path::file_name(): the last component when it is Normal
file_name(p) ==
    LET cs == components(p) IN
    IF cs # <<>> /\ cs[Len(cs)].kind = "Normal" THEN Some(cs[Len(cs)].s) ELSE None

RECURSIVE LastDot(_, _)
\* index of the last "." of f at or before i, 0 when there is none
LastDot(f, i) == IF i = 0 THEN 0 ELSE IF f[i] = "." THEN i ELSE LastDot(f, i - 1)

\* rsplit_file_at_dot: <<before, after>> as options
rsplit_file_at_dot(f) ==
    LET d == LastDot(f, Len(f)) IN
    IF f = <<".", ".">> THEN <<Some(f), None>>
    ELSE IF d = 0 THEN <<None, Some(f)>>
    ELSE IF d = 1 THEN <<Some(f), None>>
    ELSE <<Some(SubSeq(f, 1, d - 1)), Some(SubSeq(f, d + 1, Len(f)))>>

\* Path::extension(): before.and(after)
extension(p) ==
    LET fn == file_name(p) IN
    IF fn = None THEN None
    ELSE LET ba == rsplit_file_at_dot(fn[1]) IN
         IF ba[1] = None THEN None ELSE ba[2]

\* Path::file_stem(): before.or(after)
file_stem(p) ==
    LET fn == file_name(p) IN
    IF fn = None THEN None
    ELSE LET ba == rsplit_file_at_dot(fn[1]) IN
         IF ba[1] # None THEN ba[1] ELSE ba[2]

RECURSIVE TrimTrailing(_)
\* p without the trailing separators and "." segments that components() skips
TrimTrailing(p) ==
    LET n == Len(p) IN
    IF n >= 2 /\ p[n] = "/" THEN TrimTrailing(SubSeq(p, 1, n - 1))
    ELSE IF n >= 2 /\ p[n] = "." /\ p[n - 1] = "/" THEN TrimTrailing(SubSeq(p, 1, n - 1))
    ELSE p

\* PathBuf::push
push(buf, p) ==
    IF is_absolute(p) THEN p
    ELSE IF buf # <<>> /\ buf[Len(buf)] # "/" THEN buf \o <<"/">> \o p
    ELSE buf \o p

\* Path::join
join(base, p) == push(base, p)

RECURSIVE collect(_)
\* FromIterator<Component> for PathBuf: push every component in turn
collect(cs) ==
    IF cs = <<>> THEN <<>>
    ELSE push(collect(SubSeq(cs, 1, Len(cs) - 1)), cs[Len(cs)].s)

\* Path::with_extension: the path is cut right after the file stem and "." ext
\* is added; a path without a file name is returned as it is.
with_extension(p, ext) ==
    LET stem == file_stem(p)
        t    == TrimTrailing(p)
        fn   == file_name(p)
    IN  IF stem = None THEN p
        ELSE SubSeq(t, 1, Len(t) - Len(fn[1]) + Len(stem[1]))
             \o (IF ext = <<>> THEN <<>> ELSE <<".">> \o ext)

\* Path::parent(): the path of the components before the last one; None when
\* the last component is the root (or there is none).  The result is given as
\* the components joined again (the same path up to repeated separators).
parent(p) ==
    LET cs == components(p) IN
    IF cs = <<>> \/ cs[Len(cs)].kind = "RootDir" THEN None
    ELSE Some(collect(SubSeq(cs, 1, Len(cs) - 1)))

\* SelectSeq with the Component kind test of sanitize_path's filter
NotParentDir(c) == c.kind # "ParentDir"

\* cli.rs: ArchiveType and FormatFileExt for ArchiveType
ArchiveType == {"Cbz", "Zip", "Cb7", "SevenZip"}
archive_ext(a) ==
    CASE a = "Zip" -> <<"zip">>
      [] a = "Cbz" -> <<"cbz">>
      [] a = "Cb7" -> <<"cb7">>
      [] a = "SevenZip" -> <<"7z">>

sanitize_path(p) ==
    IF is_absolute(p) THEN collect(Tail(components(p)))
    ELSE collect(SelectSeq(components(p), NotParentDir))

\* The result of output_archive_path: a path, or the panic of expect("invalid path")
Path(p) == [kind |-> "path", path |-> p]
Panic == [kind |-> "panic", path |-> <<>>]

output_archive_path(src, out, a) ==
    IF is_absolute(src)
    THEN LET base == IF file_name(src) # None THEN file_name(src) ELSE parent(src) IN
         IF base = None THEN Panic
         ELSE Path(join(out, with_extension(base[1], archive_ext(a))))
    ELSE Path(join(out, with_extension(sanitize_path(src), archive_ext(a))))


(***************************************************************************)
(* The values a group of variables keeps while another part is under check *)
(***************************************************************************)
Unset == [kind |-> "unset", path |-> <<>>]

PipelineIdle ==
    /\ mainpc = "idle" /\ jobs_fs = 1 /\ cli_jobs = 1 /\ jobs = 1
    /\ next_source = 1 /\ job = <<>> /\ entry = <<>> /\ appended = <<>>
    /\ opened = <<>> /\ closed = <<>> /\ notified = <<>> /\ bar_completed = 0
    /\ readres = <<>> /\ attempts = <<>> /\ failures = <<>>

NamesIdle ==
    /\ names = <<>> /\ pos = 1 /\ kept = <<>> /\ root = None /\ possible = None

PathIdle ==
    /\ source = <<>> /\ outdir = <<>> /\ archive = "Cbz" /\ output = Unset

TranscodeIdle ==
    /\ cfg = <<>> /\ tname = <<>> /\ tdata = <<>> /\ tresult = None

ArchiveIdle ==
    /\ apc = "idle" /\ container = <<>> /\ working = <<>> /\ alog = <<>>
    /\ written = <<>>

OpenIdle ==
    /\ force = FALSE /\ osrc = <<>> /\ rres = <<>>
    /\ fs0 = <<>> /\ fs = <<>> /\ target = <<>> /\ wpc = <<>>
    /\ saw = <<>> /\ touched = <<>> /\ truncated = {}

ResolveIdle ==
    /\ files = {} /\ specs = <<>> /\ sources = Unset /\ again = Unset

\* every string of at most n atoms of S
StrUpTo(S, n) == UNION {[1..k -> S] : k \in 0..n}

(***************************************************************************)
(* output_archive_path applied to one source path.                         *)
(***************************************************************************)
PathAtoms == {"/", ".", "a"}
Outdirs == { <<"o">>, <<"/", "o">> }

InitPath ==
    /\ PipelineIdle /\ NamesIdle /\ TranscodeIdle /\ ArchiveIdle /\ OpenIdle /\ ResolveIdle
    /\ source \in StrUpTo(PathAtoms, MaxPathLen)
    /\ outdir \in Outdirs
    /\ archive \in ArchiveType
    /\ output = Unset

OutputArchivePath ==
    /\ output = Unset
    /\ output' = output_archive_path(source, outdir, archive)
    /\ UNCHANGED <<source, outdir, archive, pvars, nvars, xvars>>

NextPath == OutputArchivePath

SpecPath == InitPath /\ [][NextPath]_vars

HasParentDir(p) == \E i \in 1..Len(components(p)) : components(p)[i].kind = "ParentDir"

\* r is o followed by one or more Normal components
Inside(r, o) ==
    LET cr == components(r)
        co == components(o)
    IN  /\ Len(cr) > Len(co)
        /\ SubSeq(cr, 1, Len(co)) = co
        /\ \A i \in (Len(co) + 1)..Len(cr) : cr[i].kind = "Normal"

\* C10: for an absolute source path and for a relative source path with ".."
\* components, the path output_archive_path returns is outdir followed by one
\* or more normal components (never an absolute path that replaces outdir,
\* never a path with a ".." component).
C10_OutputInsideOutdir ==
    (output.kind = "path" /\ (is_absolute(source) \/ HasParentDir(source)))
        => Inside(output.path, outdir)


(***************************************************************************)
(* filter_entries: one entry name pulled through the filter closure.       *)
(***************************************************************************)
ThumbsDb == <<"Thumbs", ".", "db">>
DsStore  == <<".", "DS_Store">>
MacOsx   == <<"__MACOSX">>

ends_with_sep(s) == s # <<>> /\ s[Len(s)] = "/"

\* Path::ends_with(child) for a child of one normal component
path_ends_with(p, child) ==
    LET cs == components(p) IN cs # <<>> /\ cs[Len(cs)] = Comp("Normal", child)

\* the three chained filters over uri.iter(): an item passes only if it passes
\* every one of them
chained_filters(c) ==
    /\ c.s = MacOsx
    /\ c.s = DsStore
    /\ Len(c.s) > 1 /\ c.s[1] = "."

filter_skip(s) ==
    \/ ends_with_sep(s)
    \/ path_ends_with(s, ThumbsDb)
    \/ file_name(s) = Some(DsStore)
    \/ \E i \in 1..Len(components(s)) : chained_filters(components(s)[i])

FilterNames ==
    { <<"a", ".", "png">>,
      <<"R", "/", "a", ".", "png">>,
      <<"R", "/">>,
      ThumbsDb,
      <<"R", "/">> \o ThumbsDb,
      DsStore,
      <<"R", "/">> \o DsStore,
      MacOsx \o <<"/">>,
      MacOsx \o <<"/", "a", ".", "png">>,
      <<"R", "/">> \o MacOsx \o <<"/", ".", "a", ".", "png">>,
      <<"R", "/", ".", "hidden">> }

InitFilter ==
    /\ PipelineIdle /\ PathIdle /\ TranscodeIdle /\ ArchiveIdle /\ OpenIdle /\ ResolveIdle
    /\ names \in StrUpTo(FilterNames, MaxFilterLen)
    /\ pos = 1 /\ kept = <<>> /\ root = None /\ possible = None

FilterEntry ==
    /\ pos <= Len(names)
    /\ kept' = IF filter_skip(names[pos]) THEN kept ELSE Append(kept, names[pos])
    /\ pos' = pos + 1
    /\ UNCHANGED <<names, root, possible, pvars, ovars, xvars>>

NextFilter == FilterEntry

SpecFilter == InitFilter /\ [][NextFilter]_vars

\* the entry lies under a directory named __MACOSX
UnderMacOsx(s) ==
    LET cs == components(s) IN \E i \in 1..(Len(cs) - 1) : cs[i].s = MacOsx

\* C7: the output of filter_entries never contains an entry whose name ends
\* with a path separator, an entry named Thumbs.db, an entry named .DS_Store,
\* or an entry located under an __MACOSX directory.
C7_NoNoiseKept ==
    \A i \in 1..Len(kept) :
        /\ ~ends_with_sep(kept[i])
        /\ file_name(kept[i]) # Some(ThumbsDb)
        /\ file_name(kept[i]) # Some(DsStore)
        /\ ~UnderMacOsx(kept[i])

\* the final path segment is a hidden dotfile: it starts with "." and is longer
\* than one character
HiddenDotfile(s) ==
    file_name(s) # None /\ Len(file_name(s)[1]) > 1 /\ file_name(s)[1][1] = "."

\* C20: the output of filter_entries never contains an entry whose final path
\* segment is a hidden dotfile (dir/.hidden as well as .DS_Store).
C20_NoHiddenDotfileKept ==
    \A i \in 1..Len(kept) : ~HiddenDotfile(kept[i])

(***************************************************************************)
(* remove_root_entry: one entry name pulled through the filter closure,    *)
(* which owns `root` and `possible`.                                       *)
(***************************************************************************)
\* the closure: what it returns (keep) and what it leaves in root and possible
Closure(k, r, p) == [keep |-> k, root |-> r, possible |-> p]

\* a faulty variant of root_closure: the final check uses the root as it was before
\* this entry
root_closure_stale(x, r, p) ==
    IF r # None THEN Closure(x # r[1], r, p)
    ELSE LET parts == components(x) IN
         IF parts = <<>> THEN Closure(FALSE, r, p)
         ELSE LET first == parts[1].s
                  found == extension(first) = None /\ p = Some(first)
                  r2    == IF found THEN p ELSE r
                  p2    == IF extension(first) # None THEN p
                           ELSE IF found THEN None
                           ELSE Some(first)
              IN  Closure(Some(x) # r, r2, p2)

\* a faulty variant of root_closure: the first extension-less first component is the
\* root at once
root_closure_eager(x, r, p) ==
    IF r # None THEN Closure(x # r[1], r, p)
    ELSE LET parts == components(x) IN
         IF parts = <<>> THEN Closure(FALSE, r, p)
         ELSE LET first == parts[1].s
                  found == extension(first) = None
                  r2    == IF found THEN Some(first) ELSE r
              IN  Closure(Some(x) # r2, r2, p)

\* a faulty variant of root_closure: a candidate, once set, is never replaced
root_closure_sticky(x, r, p) ==
    IF r # None THEN Closure(x # r[1], r, p)
    ELSE LET parts == components(x) IN
         IF parts = <<>> THEN Closure(FALSE, r, p)
         ELSE LET first == parts[1].s
                  found == extension(first) = None /\ p = Some(first)
                  r2    == IF found THEN p ELSE r
                  p2    == IF extension(first) # None THEN p
                           ELSE IF found THEN None
                           ELSE IF p = None THEN Some(first)
                           ELSE p
              IN  Closure(Some(x) # r2, r2, p2)

root_closure(x, r, p) ==
    IF r # None THEN Closure(x # r[1], r, p)
    ELSE LET parts == components(x) IN
         IF parts = <<>> THEN Closure(FALSE, r, p)
         ELSE LET first == parts[1].s
                  found == extension(first) = None /\ p = Some(first)
                  r2    == IF found THEN p ELSE r
                  p2    == IF extension(first) # None THEN p
                           ELSE IF found THEN None
                           ELSE Some(first)
              IN  Closure(Some(x) # r2, r2, p2)

RootNames ==
    { <<"R">>,
      <<"R", "/">>,
      <<"R", "/", "a", ".", "png">>,
      <<"R", "/", "Q">>,
      <<"Q">>,
      <<"Q", "/", "a", ".", "png">>,
      <<"a", ".", "png">>,
      <<>> }

InitRoot ==
    /\ PipelineIdle /\ PathIdle /\ TranscodeIdle /\ ArchiveIdle /\ OpenIdle /\ ResolveIdle
    /\ names \in StrUpTo(RootNames, MaxRootLen)
    /\ pos = 1 /\ kept = <<>> /\ root = None /\ possible = None

RemoveRootEntry ==
    /\ pos <= Len(names)
    /\ LET c == root_closure(names[pos], root, possible) IN
         /\ kept' = IF c.keep THEN Append(kept, names[pos]) ELSE kept
         /\ root' = c.root
         /\ possible' = c.possible
    /\ pos' = pos + 1
    /\ UNCHANGED <<names, pvars, ovars, xvars>>

NextRoot == RemoveRootEntry

SpecRoot == InitRoot /\ [][NextRoot]_vars

Exhausted == pos > Len(names)

\* the first path component of a name (None for the empty name)
FirstComponent(x) == IF components(x) = <<>> THEN None ELSE Some(components(x)[1].s)

\* every entry's first component is r, r has no extension, and r occurs at
\* least twice as a first component
WrappedBy(r) ==
    /\ Len(names) >= 2
    /\ extension(r) = None
    /\ \A i \in 1..Len(names) : FirstComponent(names[i]) = Some(r)

Wrappers == {<<"R">>, <<"Q">>}

Without(seq, r) == LET Test(x) == x # r IN SelectSeq(seq, Test)

\* C8 as stated: when every entry's first component is the same extension-less
\* R, occurring at least twice, remove_root_entry removes every entry named
\* exactly R and no other entry, wherever the entry named R stands.
C8_AllRootEntriesRemoved ==
    \A r \in Wrappers : (Exhausted /\ WrappedBy(r)) => kept = Without(names, r)

\* C8 as amended: under the same premise, remove_root_entry removes every entry
\* named exactly R except an entry named R that is the first of the sequence,
\* and removes no other entry.
C8_RootEntriesAfterFirstRemoved ==
    \A r \in Wrappers :
        (Exhausted /\ WrappedBy(r)) => kept = <<names[1]>> \o Without(Tail(names), r)

C8_Witness ==
    /\ Exhausted /\ WrappedBy(<<"R">>)
    /\ names[1] = <<"R">>
    /\ \E i \in 2..Len(names) : names[i] = <<"R">>
    /\ \E i \in 2..Len(names) : names[i] # <<"R">>
    /\ Len(kept) = 2

\* no extension-less first component occurs as a first component twice, and
\* one occurs
WrapperOccursOnce ==
    /\ \E i \in 1..Len(names) :
          FirstComponent(names[i]) # None /\ extension(FirstComponent(names[i])[1]) = None
    /\ \A i, j \in 1..Len(names) :
          (/\ i # j
           /\ FirstComponent(names[i]) # None
           /\ extension(FirstComponent(names[i])[1]) = None)
              => FirstComponent(names[i]) # FirstComponent(names[j])

\* C9 as stated: when the wrapping name occurs as a first path component
\* exactly once, remove_root_entry removes no entry.
C9_NoRemoval == (Exhausted /\ WrapperOccursOnce) => kept = names

\* C9 as amended: when the wrapping name occurs as a first path component
\* exactly once, remove_root_entry removes no entry but those whose name is
\* empty (which have no first component).
C9_OnlyEmptyNamesRemoved ==
    (Exhausted /\ WrapperOccursOnce) => kept = Without(names, <<>>)

C9_Witness ==
    /\ Exhausted /\ WrapperOccursOnce
    /\ Len(names) >= 2
    /\ \E i \in 1..Len(names) : names[i] = <<"R">>
    /\ kept = names


\* one step of the closure on the entry x == names[pos], read as a step of the
\* machine NoRootSeen (root and possible None), CandidateSeen (possible set),
\* RootConfirmed (root set)
RootMachineStep ==
    LET x       == names[pos]
        fc      == FirstComponent(x)
        noext   == fc # None /\ extension(fc[1]) = None
        dropped == kept' = kept
    IN  /\ root # None =>
              root' = root /\ possible' = possible /\ (dropped <=> x = root[1])
        /\ (root = None /\ noext /\ possible = fc) =>
              root' = fc /\ (dropped <=> x = fc[1])
        /\ (root = None /\ noext /\ possible # fc) =>
              root' = None /\ possible' = fc
        /\ (root = None /\ fc # None /\ ~noext) =>
              root' = None /\ possible' = possible

\* C19: remove_root_entry is the machine NoRootSeen -> CandidateSeen(name) ->
\* RootConfirmed(name): an extension-less first component is promoted to root
\* when it equals the candidate and replaces the candidate otherwise; a first
\* component with an extension changes no state; a confirmed root never
\* changes, the candidate is no longer updated, and from the confirming entry
\* on exactly the entries whose full name equals root are dropped.
C19_RootStateMachine == [][RootMachineStep]_vars

\* the root R was confirmed by the second entry and a later entry named R was
\* dropped
C19_Witness ==
    /\ root = Some(<<"R">>) /\ pos = 4
    /\ names[3] = <<"R">>
    /\ kept = SubSeq(names, 1, 2)

(***************************************************************************)
(* transcode (main.rs): the transform applied to one entry.                *)
(*                                                                         *)
(* An extension is one atom; atoms that differ only in letter case are     *)
(* different atoms, related by to_lowercase.  The bytes of an entry are    *)
(* [kind, enc]: kind is the image format the content really is ("junk"     *)
(* when it is no image), enc tells source bytes from an encoder's output.  *)
(***************************************************************************)
LowerAtom(a) ==
    CASE a = "TXT"  -> "txt"
      [] a = "Md"   -> "md"
      [] a = "PNG"  -> "png"
      [] a = "JPG"  -> "jpg"
      [] a = "Jpeg" -> "jpeg"
      [] a = "WEBP" -> "webp"
      [] OTHER      -> a

\* str::to_ascii_lowercase, as ImageFormat::from_extension applies it
to_ascii_lowercase(s) == [i \in 1..Len(s) |-> LowerAtom(s[i])]

\* a faulty variant of to_lowercase: the extension is matched as it is written
to_lowercase_missing(s) == s

\* str::to_lowercase
to_lowercase(s) == [i \in 1..Len(s) |-> LowerAtom(s[i])]

\* image::ImageFormat::from_extension, for the formats of the model
from_extension(e) ==
    LET l == to_ascii_lowercase(e) IN
    CASE l = <<"avif">>                  -> Some("Avif")
      [] l = <<"jpg">> \/ l = <<"jpeg">> -> Some("Jpeg")
      [] l = <<"png">>                   -> Some("Png")
      [] l = <<"gif">>                   -> Some("Gif")
      [] l = <<"webp">>                  -> Some("WebP")
      [] OTHER                           -> None

\* the match arm "txt" | "md" | ... | "yaml"
TextKinds == {"txt", "md", "xml", "html", "svg", "info", "json", "yml", "yaml"}
is_text(e) == Len(e) = 1 /\ e[1] \in TextKinds

\* image::ImageOutputFormat: Jpeg carries a quality
Avif == <<"Avif">>
WebP == <<"WebP">>
Png  == <<"Png">>
Gif  == <<"Gif">>
Jpeg(q) == <<"Jpeg", q>>

\* impl From<ImageFormat> for ImageOutputFormat (image crate): Jpeg becomes
\* Jpeg(75)
ImageOutputFormat_from(f) == IF f = "Jpeg" THEN Jpeg(75) ELSE <<f>>

\* parse_image_output_format: the values --format can produce
Formats == {Avif, WebP, Png, Jpeg(100), Gif}

\* --quality: value_parser 1..=100, default 100
Qualities == {1, 75, 100}

Cfgs == [format : Formats, quality : Qualities]

\* FormatFileExt::ext for ImageOutputFormat
image_ext(f) ==
    CASE f[1] = "Avif" -> <<"avif">>
      [] f[1] = "WebP" -> <<"webp">>
      [] f[1] = "Jpeg" -> <<"jpeg">>
      [] f[1] = "Png"  -> <<"png">>
      [] f[1] = "Gif"  -> <<"gif">>
      [] OTHER         -> <<>>

\* u8::clamp
clamp(v, lo, hi) == IF v < lo THEN lo ELSE IF v > hi THEN hi ELSE v

ImageKinds == {"Png", "Jpeg", "Gif", "WebP"}
Bytes(kind, enc) == [kind |-> kind, enc |-> enc]
Datas == {Bytes(k, "source") : k \in ImageKinds \cup {"junk"}}

\* a faulty variant of decodes: every content is taken for an image
decodes_anything(format, data) == TRUE

\* image::load_from_memory_with_format / load_from_memory returns Ok
decodes(format, data) ==
    IF format # None THEN data.kind = format[1] ELSE data.kind \in ImageKinds

\* what the spawned transcode task ends with; decoded tells whether the image
\* was decoded and given to an encoder
\* log is the level of the message that tells what was done with the entry
TOk(name, data, decoded, log) ==
    [kind |-> "ok", name |-> name, data |-> data, decoded |-> decoded, log |-> log]
TErr(decoded) ==
    [kind |-> "err", name |-> <<>>, data |-> <<>>, decoded |-> decoded, log |-> "trace"]
TPanic ==
    [kind |-> "panic", name |-> <<>>, data |-> <<>>, decoded |-> FALSE, log |-> "none"]

\* a faulty variant of already_good: only AVIF counts as efficient
already_good_avif_only(format) == format = Some("Avif")

\* matches!(format, Some(WebP) | Some(Avif))
already_good(format) == format = Some("WebP") \/ format = Some("Avif")

\* transcode(cfg, data, name); encodes tells whether the encoder returns Ok
transcode(c, data, name, encodes) ==
    LET filename == file_name(name)
        e        == extension(name)
        format   == IF e = None THEN None ELSE from_extension(e[1])
        text     == format = None /\ e # None /\ is_text(to_lowercase(e[1]))
        out_format == IF c.format[1] = "Jpeg" THEN Jpeg(clamp(c.quality, 0, 100))
                      ELSE c.format
    IN  IF filename = None THEN TPanic
        ELSE IF text THEN TOk(name, data, FALSE, "debug")
        ELSE IF format # None /\ out_format = ImageOutputFormat_from(format[1])
             THEN TOk(filename[1], data, FALSE, "warn")
        ELSE IF already_good(format)
             THEN TOk(filename[1], data, FALSE, "warn")
        ELSE IF decodes(format, data)
             THEN IF encodes
                  THEN TOk(with_extension(filename[1], image_ext(c.format)),
                           Bytes(c.format[1], "encoded"), TRUE, "trace")
                  ELSE TErr(TRUE)
        ELSE TOk(name, data, FALSE, "warn")

ExtAtoms ==
    {"png", "PNG", "jpg", "JPG", "jpeg", "Jpeg", "gif", "webp", "WEBP", "avif",
     "dat"} \cup TextKinds \cup {"TXT", "Md"}

\* p, d/p, with and without an extension; d/.. has no file name
TranscodeNames ==
    {dir \o <<"p">> \o suffix :
        dir \in {<<>>, <<"d", "/">>},
        suffix \in {<<>>} \cup {<<".", x>> : x \in ExtAtoms}}
    \cup {<<"d", "/", ".", ".">>}

InitTranscode ==
    /\ PipelineIdle /\ NamesIdle /\ PathIdle /\ ArchiveIdle /\ OpenIdle /\ ResolveIdle
    /\ cfg \in Cfgs
    /\ tname \in TranscodeNames
    /\ tdata \in Datas
    /\ tresult = None

Transcode ==
    /\ tresult = None
    /\ \E encodes \in BOOLEAN : tresult' = Some(transcode(cfg, tdata, tname, encodes))
    /\ UNCHANGED <<cfg, tname, tdata, pvars, nvars, ovars, avars, wvars, rvars>>

NextTranscode == Transcode

SpecTranscode == InitTranscode /\ [][NextTranscode]_vars

\* the image format the name's extension stands for
DetectedFormat(name) ==
    IF extension(name) = None THEN None ELSE from_extension(extension(name)[1])

\* C11: an entry whose detected format is the configured target format comes
\* back with the same bytes and the same extension, and is not decoded, for
\* every target format and every quality.
C11_SameFormatCopied ==
    (tresult # None /\ DetectedFormat(tname) = Some(cfg.format[1])) =>
        /\ tresult[1].kind = "ok"
        /\ tresult[1].data = tdata
        /\ extension(tresult[1].name) = extension(tname)
        /\ ~tresult[1].decoded

\* logger::init: --verbose given 0, 1, 2, 3 times or more
Verbosities == 0..3
LevelRank(l) ==
    CASE l = "error" -> 1 [] l = "warn" -> 2 [] l = "info" -> 3
      [] l = "debug" -> 4 [] l = "trace" -> 5 [] OTHER -> 6
max_level(verbose) ==
    CASE verbose = 0 -> 2 [] verbose = 1 -> 3 [] verbose = 2 -> 4 [] OTHER -> 5

\* a message of level l is printed at this verbosity
log_enabled(l, verbose) == LevelRank(l) <= max_level(verbose)

\* C21: an entry whose extension is that of WebP or AVIF comes back with the
\* same bytes and the same extension, undecoded, with a warning that is
\* printed at every verbosity, for every target format.
C21_EfficientSourceCopied ==
    (tresult # None /\ DetectedFormat(tname) \in {Some("WebP"), Some("Avif")}) =>
        /\ tresult[1].kind = "ok"
        /\ tresult[1].data = tdata
        /\ extension(tresult[1].name) = extension(tname)
        /\ ~tresult[1].decoded
        /\ tresult[1].log = "warn"
        /\ \A v \in Verbosities : log_enabled(tresult[1].log, v)

\* a WebP page under a directory with the target png
C21_Witness ==
    /\ tresult # None
    /\ tname = <<"d", "/", "p", ".", "webp">>
    /\ tdata.kind = "WebP"
    /\ cfg.format = Png
    /\ tresult[1].name = <<"p", ".", "webp">>
    /\ tresult[1].data = tdata

\* the name has a file name whose extension, if any, is neither an image
\* format's nor a plain-text kind
UnknownKind(name) ==
    /\ file_name(name) # None
    /\ DetectedFormat(name) = None
    /\ extension(name) # None => ~is_text(to_ascii_lowercase(extension(name)[1]))

\* C22: an entry of unknown extension whose bytes are no image comes back Ok
\* (so convert_entry hands it to write_all instead of reporting a failure)
\* with its name and bytes unchanged and a warning printed at every verbosity.
C22_UndecodablePassedThrough ==
    (tresult # None /\ UnknownKind(tname) /\ tdata.kind \notin ImageKinds) =>
        /\ tresult[1] = TOk(tname, tdata, FALSE, "warn")
        /\ \A v \in Verbosities : log_enabled(tresult[1].log, v)

\* d/p.dat holding bytes that are no image
C22_Witness ==
    /\ tresult # None
    /\ tname = <<"d", "/", "p", ".", "dat">>
    /\ tdata.kind = "junk"
    /\ tresult[1].kind = "ok"
    /\ tresult[1].name = tname

\* the name's extension is a plain-text kind in some letter case
TextName(name) ==
    extension(name) # None /\ is_text(to_ascii_lowercase(extension(name)[1]))

\* C12: an entry whose extension is a plain-text kind, in any letter case,
\* comes back with its bytes and its name unchanged and is not decoded,
\* whatever the content and the target format.
C12_TextCopied ==
    (tresult # None /\ TextName(tname)) =>
        tresult[1] = TOk(tname, tdata, FALSE, "debug")

\* an upper-case text extension on bytes that are an image, under a directory
C12_Witness ==
    /\ tresult # None
    /\ tname = <<"d", "/", "p", ".", "TXT">>
    /\ tdata.kind = "Png"
    /\ cfg.format = Avif
    /\ tresult[1].name = tname

(***************************************************************************)
(* One file job seen from its entries: archive_reader builds the working   *)
(* set, convert_all gives every entry to transcode and the result to       *)
(* write_all, in the order in which the entry tasks complete.              *)
(***************************************************************************)
filter_entries(ns) == LET Keep(n) == ~filter_skip(n) IN SelectSeq(ns, Keep)

RECURSIVE remove_root_from(_, _, _, _)
\* the entries the adaptor yields from ns[i..] with the closure's state r, p
remove_root_from(ns, i, r, p) ==
    IF i > Len(ns) THEN <<>>
    ELSE LET c == root_closure(ns[i], r, p) IN
         (IF c.keep THEN <<ns[i]>> ELSE <<>>)
             \o remove_root_from(ns, i + 1, c.root, c.possible)

remove_root_entry(ns) == remove_root_from(ns, 1, None, None)

\* a faulty variant of archive_reader: filter_entries is left out
archive_reader_unfiltered(ns) == remove_root_entry(ns)

\* archive_reader: the names of the working set
archive_reader(ns) == remove_root_entry(filter_entries(ns))

Page1 == <<"book", "/", "page1", ".", "png">>
Page2 == <<"book", "/", "page2", ".", "png">>
BookMarker == <<"book", "/", "book", "/">>

ArchiveNames ==
    { Page1, Page2, BookMarker,
      <<"book", "/", "alt", "/", "page1", ".", "png">>,
      <<"book", "/", "page1", ".", "gif">>,
      <<"book", "/", "note", ".", "txt">> }

MaxContainer == 3

ArchiveDatas == {Bytes(k, "source") : k \in {"Png", "Gif", "junk"}}

\* the default quality with every target format
ArchiveCfgs == {c \in Cfgs : c.quality = 100}

InitArchive ==
    /\ PipelineIdle /\ NamesIdle /\ PathIdle /\ OpenIdle /\ ResolveIdle
    /\ tname = <<>> /\ tdata = <<>> /\ tresult = None
    /\ cfg \in ArchiveCfgs
    /\ container \in StrUpTo(ArchiveNames, MaxContainer)
    /\ apc = "open"
    /\ working = <<>> /\ alog = <<>> /\ written = <<>>

\* open_inout: archive_reader returns the working set
ArchiveReader ==
    /\ apc = "open"
    /\ working' = archive_reader(container)
    /\ alog' = [i \in 1..Len(working') |-> None]
    /\ apc' = "convert"
    /\ UNCHANGED <<container, written, tvars, pvars, nvars, ovars, wvars, rvars>>

\* convert_entry for working[i], from read_file to write_all
ConvertEntry(i) ==
    /\ apc = "convert"
    /\ alog[i] = None
    /\ \E data \in ArchiveDatas, encodes \in BOOLEAN :
         LET r == transcode(cfg, data, working[i], encodes) IN
         /\ alog' = [alog EXCEPT ![i] = Some([data |-> data, kind |-> r.kind,
                                              decoded |-> r.decoded])]
         /\ written' = IF r.kind = "ok" THEN Append(written, r.name) ELSE written
    /\ UNCHANGED <<apc, container, working, tvars, pvars, nvars, ovars, wvars, rvars>>

\* convert_all: the inner stream has ended, the writer is closed
CloseArchive ==
    /\ apc = "convert"
    /\ \A i \in 1..Len(working) : alog[i] # None
    /\ apc' = "closed"
    /\ UNCHANGED <<container, working, alog, written, tvars, pvars, nvars, ovars, wvars, rvars>>

NextArchive ==
    \/ ArchiveReader
    \/ \E i \in 1..Len(working) : ConvertEntry(i)
    \/ CloseArchive

SpecArchive == InitArchive /\ [][NextArchive]_vars

Distinct(seq) == \A i, j \in 1..Len(seq) : i # j => seq[i] # seq[j]
Range(seq) == {seq[i] : i \in 1..Len(seq)}

\* C17: in a file job whose filtered entries have pairwise distinct names, the
\* names given to write_all are pairwise distinct.
C17_OutputNamesDistinct ==
    (apc # "open" /\ Distinct(working)) => Distinct(written)

\* the entries of the job were all valid PNG images and every transcode
\* returned Ok
AllPagesEncoded ==
    \A i \in 1..Len(alog) :
        alog[i] # None /\ alog[i][1].data.kind = "Png" /\ alog[i][1].kind = "ok"

\* page with the target format's extension
Renamed(page) == <<page>> \o <<".">> \o image_ext(cfg.format)

\* C15: a name written for a decoded and re-encoded entry has the target
\* format's extension; the container book/page1.png, book/page2.png,
\* book/book/ gives the working set of the two pages, and the writer receives
\* exactly two entries, page1 and page2 with the target extension.
C15_ReencodedRenamed ==
    /\ \A i \in 1..Len(alog) :
          (alog[i] # None /\ alog[i][1].decoded /\ alog[i][1].kind = "ok") =>
              \E k \in 1..Len(written) :
                  /\ extension(written[k]) = Some(image_ext(cfg.format))
                  /\ file_stem(written[k]) = file_stem(working[i])
    /\ (apc # "open" /\ container = <<Page1, Page2, BookMarker>>) =>
          working = <<Page1, Page2>>
    /\ (apc = "closed" /\ container = <<Page1, Page2, BookMarker>>
           /\ AllPagesEncoded) =>
          /\ Len(written) = 2
          /\ Range(written) = {Renamed("page1"), Renamed("page2")}

\* the scenario's container converted to the default format avif
C15_Witness ==
    /\ apc = "closed"
    /\ container = <<Page1, Page2, BookMarker>>
    /\ cfg.format = Avif
    /\ AllPagesEncoded
    /\ Range(written) = {<<"page1", ".", "avif">>, <<"page2", ".", "avif">>}

(***************************************************************************)
(* ArchiveWriter::open_file (main.rs), run by the file jobs of one run on  *)
(* a shared file system.  A file is "absent", "old" (it was there before   *)
(* the run), "empty" (just created or truncated) or "data" (written by a   *)
(* job of the run).  The run starts in the directory /w; its sources are   *)
(* distinct paths, and each job's output path is output_archive_path of    *)
(* its source.                                                             *)
(***************************************************************************)
NumOpeners == 2
Openers == 1..NumOpeners

\* std::env::current_dir()
Cwd == <<"/", "w">>

\* the sources of a run: three files of the current directory and one given
\* by an absolute path
OpenSources ==
    { <<"a", ".", "cbz">>, <<"a", ".", "zip">>, <<"b", ".", "cbz">>,
      <<"/", "x", "/", "a", ".", "cbz">> }

\* outdir: the current directory when no output is given, or the given one
OpenOutdirs == {Cwd, <<"o">>}
OpenArchives == {"Cbz", "Zip"}

\* the file a path names for the operating system
AbsolutePath(p) == IF is_absolute(p) THEN p ELSE join(Cwd, p)

\* open_inout: the output path of a source
TargetOf(src, out, a) == AbsolutePath(output_archive_path(src, out, a).path)

\* the files a run can look at: its sources and its outputs
RunPaths(srcs, out, a) ==
    {AbsolutePath(srcs[j]) : j \in DOMAIN srcs} \cup {TargetOf(srcs[j], out, a) : j \in DOMAIN srcs}

OutPaths == DOMAIN fs

\* tokio::fs::OpenOptions as open_file sets them
OpenOptionsCreate(out_exists, f) ==
    [write |-> TRUE, create |-> ~out_exists, create_new |-> FALSE, truncate |-> f]

OpenOptions(out_exists, f) ==
    [write |-> TRUE, create |-> FALSE, create_new |-> ~out_exists, truncate |-> f]

\* open(2) with these options on a file in state st: the error, the file's
\* state afterwards and whether an existing file was truncated
os_open(opts, st) ==
    IF opts.create_new
    THEN IF st # "absent"
         THEN [err |-> "AlreadyExists", st |-> st, created |-> FALSE, truncated |-> FALSE]
         ELSE [err |-> "", st |-> "empty", created |-> TRUE, truncated |-> FALSE]
    ELSE IF st # "absent"
         THEN [err |-> "", st |-> IF opts.truncate THEN "empty" ELSE st,
               created |-> FALSE, truncated |-> opts.truncate]
    ELSE IF opts.create
         THEN [err |-> "", st |-> "empty", created |-> TRUE, truncated |-> FALSE]
    ELSE [err |-> "NotFound", st |-> st, created |-> FALSE, truncated |-> FALSE]

InitOpen ==
    /\ PipelineIdle /\ NamesIdle /\ TranscodeIdle /\ ArchiveIdle /\ ResolveIdle
    /\ source = <<>> /\ output = Unset
    /\ outdir \in OpenOutdirs
    /\ archive \in OpenArchives
    /\ force \in BOOLEAN
    /\ osrc \in {s \in [Openers -> OpenSources] : \A i, j \in Openers : i # j => s[i] # s[j]}
    /\ rres = [j \in Openers |-> "none"]
    /\ target = [j \in Openers |-> TargetOf(osrc[j], outdir, archive)]
    /\ fs0 \in {f \in [RunPaths(osrc, outdir, archive) -> {"absent", "old"}] :
                  \A j \in Openers : f[AbsolutePath(osrc[j])] = "old"}
    /\ fs = fs0
    /\ wpc = [j \in Openers |-> "start"]
    /\ saw = [j \in Openers |-> None]
    /\ touched = [p \in DOMAIN fs0 |-> {}]
    /\ truncated = {}

\* a faulty variant of after_reader: the error of the reader is looked at only
\* after the writer was opened
after_reader_late(r) == "try_exists"

\* open_inout: archive_reader(&source).await? returns the error, or goes on
\* to the output path and the writer
after_reader(r) == IF r = "ok" THEN "try_exists" ELSE "reader_error"

\* open_inout: archive_reader(&source).await?
OpenReader(j) ==
    /\ wpc[j] = "start"
    /\ \E r \in {"ok", "err"} :
         /\ rres' = [rres EXCEPT ![j] = r]
         /\ wpc' = [wpc EXCEPT ![j] = after_reader(r)]
    /\ UNCHANGED <<force, osrc, fs0, fs, target, saw, touched, truncated,
                   pvars, nvars, ovars, tvars, avars, rvars>>

\* open_file: try_exists(&path).await? and the test out_exists && !force
TryExists(j) ==
    /\ wpc[j] = "try_exists"
    /\ \E r \in {"ok", "err"} :
         IF r = "err"
         THEN wpc' = [wpc EXCEPT ![j] = "io_error"] /\ UNCHANGED saw
         ELSE LET out_exists == fs[target[j]] # "absent" IN
              /\ saw' = [saw EXCEPT ![j] = Some(out_exists)]
              /\ wpc' = [wpc EXCEPT ![j] = IF out_exists /\ ~force
                                           THEN "AlreadyExists" ELSE "create_dir_all"]
    /\ UNCHANGED <<force, osrc, rres, fs0, fs, target, touched, truncated,
                   pvars, nvars, ovars, tvars, avars, rvars>>

\* open_file: tokio::fs::create_dir_all(parent).await?
CreateDirAll(j) ==
    /\ wpc[j] = "create_dir_all"
    /\ \E r \in {"opening", "io_error"} : wpc' = [wpc EXCEPT ![j] = r]
    /\ UNCHANGED <<force, osrc, rres, fs0, fs, target, saw, touched, truncated,
                   pvars, nvars, ovars, tvars, avars, rvars>>

\* open_file: OpenOptions ... .open(&path).await?
OpenFile(j) ==
    /\ wpc[j] = "opening"
    /\ \E denied \in BOOLEAN :
         LET p == target[j]
             o == os_open(OpenOptions(saw[j][1], force), fs[p])
         IN  IF denied
             THEN wpc' = [wpc EXCEPT ![j] = "io_error"]
                  /\ UNCHANGED <<fs, touched, truncated>>
             ELSE IF o.err # ""
             THEN wpc' = [wpc EXCEPT ![j] = o.err]
                  /\ UNCHANGED <<fs, touched, truncated>>
             ELSE /\ wpc' = [wpc EXCEPT ![j] = "open"]
                  /\ fs' = [fs EXCEPT ![p] = o.st]
                  /\ touched' = IF o.created \/ o.truncated
                                THEN [touched EXCEPT ![p] = @ \cup {j}] ELSE touched
                  /\ truncated' = IF o.truncated THEN truncated \cup {j} ELSE truncated
    /\ UNCHANGED <<force, osrc, rres, fs0, target, saw, pvars, nvars, ovars, tvars, avars, rvars>>

\* ArchiveWriter::write_all on the opened file
WriteFile(j) ==
    /\ wpc[j] = "open"
    /\ fs' = [fs EXCEPT ![target[j]] = "data"]
    /\ touched' = [touched EXCEPT ![target[j]] = @ \cup {j}]
    /\ wpc' = [wpc EXCEPT ![j] = "written"]
    /\ UNCHANGED <<force, osrc, rres, fs0, target, saw, truncated,
                   pvars, nvars, ovars, tvars, avars, rvars>>

\* ArchiveWriter::close
CloseFile(j) ==
    /\ wpc[j] \in {"open", "written"}
    /\ wpc' = [wpc EXCEPT ![j] = "closed"]
    /\ UNCHANGED <<force, osrc, rres, fs0, fs, target, saw, touched, truncated,
                   pvars, nvars, ovars, tvars, avars, rvars>>

NextOpen ==
    \/ \E j \in Openers : OpenReader(j)
    \/ \E j \in Openers : TryExists(j)
    \/ \E j \in Openers : CreateDirAll(j)
    \/ \E j \in Openers : OpenFile(j)
    \/ \E j \in Openers : WriteFile(j)
    \/ \E j \in Openers : CloseFile(j)

SpecOpen == InitOpen /\ [][NextOpen]_vars

\* C13: with force = false, open_file on a path that exists fails with
\* AlreadyExists, whether the file is seen by try_exists or appears before the
\* open, and the job that failed never creates, truncates or writes the file;
\* a file that was there before the run keeps its contents, and a file one job
\* created is opened by no other job; an existing file is truncated only with
\* force = true.
C13_ExistingTargetRefused ==
    /\ \A j \in Openers :
          /\ (~force /\ saw[j] = Some(TRUE)) => wpc[j] = "AlreadyExists"
          /\ wpc[j] = "AlreadyExists" => j \notin touched[target[j]]
    /\ \A p \in OutPaths :
          /\ (~force /\ fs0[p] = "old") => (fs[p] = "old" /\ touched[p] = {})
          /\ ~force => Cardinality(touched[p]) <= 1
    /\ truncated # {} => force

\* two jobs of a run without --force on the same path: one created the file
\* after the other's try_exists, and the other's open failed
C13_Witness ==
    /\ ~force
    /\ target[1] = target[2]
    /\ saw[2] = Some(FALSE)
    /\ wpc[2] = "AlreadyExists"
    /\ touched[target[2]] = {1}

\* job j holds an open writer
HoldsWriter(j) == wpc[j] \in {"open", "written"}

\* C24: no two file jobs of a run hold an open writer on the same output
\* path, and no output file is created, truncated or written by more than one
\* job of the run, for force false and true and every interleaving of the
\* jobs (one after the other, as with F = 1, included).
C24_OneWriterPerOutput ==
    /\ \A i, j \in Openers :
          (i # j /\ HoldsWriter(i) /\ HoldsWriter(j)) => target[i] # target[j]
    /\ \A p \in OutPaths : Cardinality(touched[p]) <= 1

\* the file of job j's source archive
SourcePath(j) == AbsolutePath(osrc[j])

\* C25: a file job never creates, truncates or writes the file of its own
\* source archive, and the source keeps its contents during the run, also
\* with the current directory as output directory, the container's extension
\* equal to the source's, and force = true.
C25_SourceNeverOpenedForWriting ==
    \A j \in Openers :
        /\ j \notin touched[SourcePath(j)]
        /\ fs[SourcePath(j)] = "old"

\* C26: a job whose archive_reader failed has not looked for, created,
\* truncated or written any file and ends with the reader's error; no job
\* reaches open_file before its reader returned Ok.
C26_ReaderBeforeWriter ==
    \A j \in Openers :
        /\ rres[j] = "err" =>
              /\ wpc[j] = "reader_error"
              /\ saw[j] = None
              /\ j \notin truncated
              /\ \A p \in OutPaths : j \notin touched[p]
        /\ wpc[j] \notin {"start", "reader_error"} => rres[j] = "ok"

\* --force with an output that exists: the reader of job 1 failed and the
\* file is as it was, while job 2 truncated its own
C26_Witness ==
    /\ force
    /\ rres[1] = "err" /\ wpc[1] = "reader_error"
    /\ fs0[target[1]] = "old" /\ fs[target[1]] = "old"
    /\ 2 \in truncated

(***************************************************************************)
(* validate_and_unglob (paths.rs) on a flat directory.  A user spec is an  *)
(* existing path, a path that does not exist, the pattern "*" or the       *)
(* invalid pattern "[".                                                    *)
(***************************************************************************)
MaxSpecs == 3

FileA == <<"a">>
FileB == <<"b">>
FileC == <<"c">>
StarPattern == <<"*">>
BadPattern == <<"[">>
AllFiles == {FileA, FileB, FileC}
SpecValues == AllFiles \cup {StarPattern, BadPattern}

\* the byte order of the atoms of file names
AtomRank(a) == CASE a = "a" -> 1 [] a = "b" -> 2 [] a = "c" -> 3 [] OTHER -> 0

RECURSIVE str_lt(_, _)
\* s < t for strings
str_lt(s, t) ==
    IF t = <<>> THEN FALSE
    ELSE IF s = <<>> THEN TRUE
    ELSE IF AtomRank(Head(s)) # AtomRank(Head(t)) THEN AtomRank(Head(s)) < AtomRank(Head(t))
    ELSE str_lt(Tail(s), Tail(t))

RECURSIVE components_lt(_, _)
components_lt(cs, ds) ==
    IF ds = <<>> THEN FALSE
    ELSE IF cs = <<>> THEN TRUE
    ELSE IF Head(cs).s # Head(ds).s THEN str_lt(Head(cs).s, Head(ds).s)
    ELSE components_lt(Tail(cs), Tail(ds))

\* Ord for Path: the components are compared in turn
path_lt(p, q) == components_lt(components(p), components(q))

\* PartialEq for Path
path_eq(p, q) == components(p) = components(q)

RECURSIVE insert_sorted(_, _)
\* x put into the sorted seq after every element that is not greater
insert_sorted(seq, x) ==
    IF seq = <<>> THEN <<x>>
    ELSE IF path_lt(x, Head(seq)) THEN <<x>> \o seq
    ELSE <<Head(seq)>> \o insert_sorted(Tail(seq), x)

\* a faulty variant of sort: the order of the user is kept
sort_none(seq) == seq

RECURSIVE sort(_)
\* Vec::sort (stable)
sort(seq) ==
    IF seq = <<>> THEN <<>>
    ELSE insert_sorted(sort(SubSeq(seq, 1, Len(seq) - 1)), seq[Len(seq)])

RECURSIVE dedup(_)
\* Vec::dedup: of consecutive equal elements the first is kept
dedup(seq) ==
    IF Len(seq) <= 1 THEN seq
    ELSE IF path_eq(seq[1], seq[2]) THEN dedup(<<seq[1]>> \o SubSeq(seq, 3, Len(seq)))
    ELSE <<seq[1]>> \o dedup(Tail(seq))

RECURSIVE sorted_seq(_)
\* the elements of a set of paths in ascending order
sorted_seq(S) ==
    IF S = {} THEN <<>>
    ELSE LET least == CHOOSE x \in S : \A y \in S : ~path_lt(y, x)
         IN  <<least>> \o sorted_seq(S \ {least})

ROk(ps) == [kind |-> "ok", paths |-> ps]
RErr == [kind |-> "err", paths |-> <<>>]

\* glob::glob(pattern): a PatternError, or the matching paths in
\* alphabetical order
glob(pattern, fl) ==
    IF pattern = BadPattern THEN RErr
    ELSE IF pattern = StarPattern THEN ROk(sorted_seq(fl))
    ELSE ROk(IF pattern \in fl THEN <<pattern>> ELSE <<>>)

RECURSIVE unglob_all(_, _)
\* the for loop: resolved.extend(unglob(query).await?) for every query
unglob_all(queries, fl) ==
    IF queries = <<>> THEN ROk(<<>>)
    ELSE LET g == glob(Head(queries), fl) IN
         IF g.kind = "err" THEN RErr
         ELSE LET rest == unglob_all(Tail(queries), fl) IN
              IF rest.kind = "err" THEN RErr ELSE ROk(g.paths \o rest.paths)

validate_and_unglob(paths, fl) ==
    LET Exists(p)   == p \in fl
        Missing(p)  == p \notin fl
        unexisting  == SelectSeq(paths, Missing)
        remaining   == SelectSeq(paths, Exists)
        resolved    == unglob_all(unexisting, fl)
    IN  IF resolved.kind = "err" THEN RErr
        ELSE ROk(dedup(sort(remaining \o resolved.paths)))

InitResolve ==
    /\ PipelineIdle /\ NamesIdle /\ PathIdle /\ TranscodeIdle /\ ArchiveIdle
    /\ OpenIdle
    /\ files \in SUBSET AllFiles
    /\ specs \in StrUpTo(SpecValues, MaxSpecs)
    /\ sources = Unset
    /\ again = Unset

\* main: validate_and_unglob(args.input)
Resolve ==
    /\ sources = Unset
    /\ sources' = validate_and_unglob(specs, files)
    /\ UNCHANGED <<files, specs, again, pvars, nvars, ovars, tvars, avars, wvars>>

\* validate_and_unglob once more, on the list it returned
ResolveAgain ==
    /\ sources # Unset /\ sources.kind = "ok"
    /\ again = Unset
    /\ again' = validate_and_unglob(sources.paths, files)
    /\ UNCHANGED <<files, specs, sources, pvars, nvars, ovars, tvars, avars, wvars>>

NextResolve == Resolve \/ ResolveAgain

SpecResolve == InitResolve /\ [][NextResolve]_vars

StrictlyAscending(seq) == \A i \in 1..(Len(seq) - 1) : path_lt(seq[i], seq[i + 1])

\* C14: the list validate_and_unglob returns is strictly ascending; every
\* list of the same specs in another order or multiplicity gives the same
\* result; and validate_and_unglob of the returned list is that list again.
C14_SortedDedupStable ==
    /\ (sources # Unset /\ sources.kind = "ok") => StrictlyAscending(sources.paths)
    /\ sources # Unset =>
          \A other \in StrUpTo(SpecValues, MaxSpecs) :
              Range(other) = Range(specs) => validate_and_unglob(other, files) = sources
    /\ again # Unset => again = sources

\* b given twice, before and after a pattern that also expands to it
C14_Witness ==
    /\ files = AllFiles
    /\ specs = <<FileB, StarPattern, FileB>>
    /\ sources = ROk(<<FileA, FileB, FileC>>)
    /\ again = sources

(***************************************************************************)
(* The pipeline of main.rs: main's outer stream of file jobs, each running *)
(* open_inout and then convert_all's inner stream of entry tasks.          *)
(*                                                                         *)
(* A file job is "queued" (not yet pulled from the stream), "open_writer"  *)
(* (the reader and its entry list are there, ArchiveWriter::open_* is      *)
(* awaited), "running" (convert_all's inner stream), "closing"             *)
(* (ArchiveWriter::close is awaited), "metadata" (the metadata of the      *)
(* source is awaited) or "done" (its result went to notify).               *)
(*                                                                         *)
(* An entry task is "pending" (not yet pulled), "transcode" (read, the     *)
(* spawned transcode is awaited), "lock_wait" (writer.write() is awaited), *)
(* "write" (it holds the lock, write_all is awaited), "ok" or "err".       *)
(***************************************************************************)
Sources == 1..NumFiles

\* the filtered entries of each source: the first holds MaxEntries of them,
\* the second two, every other none
EntryCount(f) == IF f = 1 THEN MaxEntries ELSE IF f = 2 THEN 2 ELSE 0
Entries(f) == 1..EntryCount(f)

InitPipe ==
    /\ NamesIdle /\ PathIdle /\ TranscodeIdle /\ ArchiveIdle /\ OpenIdle /\ ResolveIdle
    /\ mainpc = "resolve"
    /\ jobs_fs \in 1..MaxF
    /\ cli_jobs \in 1..MaxJobs
    /\ jobs = cli_jobs
    /\ next_source = 1
    /\ job = [f \in Sources |-> "queued"]
    /\ entry = [f \in Sources |-> [e \in Entries(f) |-> "pending"]]
    /\ appended = [f \in Sources |-> [e \in Entries(f) |-> 0]]
    /\ opened = [f \in Sources |-> 0]
    /\ closed = [f \in Sources |-> 0]
    /\ notified = [f \in Sources |-> <<>>]
    /\ bar_completed = 0
    /\ readres = [f \in Sources |-> [e \in Entries(f) |-> "none"]]
    /\ attempts = [f \in Sources |-> [e \in Entries(f) |-> 0]]
    /\ failures = [f \in Sources |-> [e \in Entries(f) |-> 0]]

\* main, line 48: validate_and_unglob(args.input).await? returns the sources,
\* or the PatternError of a spec that is no valid pattern, which main returns
ResolveSources ==
    /\ mainpc = "resolve"
    /\ \E r \in {"outdir", "resolve_failed"} : mainpc' = r
    /\ UNCHANGED <<jobs_fs, cli_jobs, jobs, next_source, job, entry, appended,
                   opened, closed, notified, bar_completed, evars, nvars, ovars, xvars>>

\* main, lines 53-59: create_dir_all(&output).await? or current_dir()?
EstablishOutdir ==
    /\ mainpc = "outdir"
    /\ \E r \in {"start", "outdir_failed"} : mainpc' = r
    /\ UNCHANGED <<jobs_fs, cli_jobs, jobs, next_source, job, entry, appended,
                   opened, closed, notified, bar_completed, evars, nvars, ovars, xvars>>

\* main, lines 62-63
Startup ==
    /\ mainpc = "start"
    /\ jobs' = jobs \div jobs_fs
    /\ mainpc' = "stream"
    /\ UNCHANGED <<jobs_fs, cli_jobs, next_source, job, entry, appended, opened,
                   closed, notified, bar_completed, evars, nvars, ovars, xvars>>

InFlightFiles == {f \in Sources : job[f] \in {"open_writer", "running", "closing", "metadata"}}
InFlightEntries(f) == {e \in Entries(f) : entry[f][e] \in {"transcode", "lock_wait", "write"}}
FinishedEntries(f) == {e \in Entries(f) : entry[f][e] \in {"ok", "err"}}

\* buffer_unordered(concurrency) pulls the next job while fewer than
\* `concurrency` are in progress
OuterHasRoom == Cardinality(InFlightFiles) < jobs_fs

\* buffer_unordered(concurrency) ends when the source list is exhausted and
\* nothing is in progress
OuterStreamDone == next_source > NumFiles /\ InFlightFiles = {}

\* a faulty variant of InnerHasRoom: the bound is off by one
InnerHasRoomLoose(f) == Cardinality(InFlightEntries(f)) <= jobs

\* buffer_unordered(jobs) pulls the next entry task while fewer than `jobs`
\* are in progress
InnerHasRoom(f) == Cardinality(InFlightEntries(f)) < jobs

\* a faulty variant of InnerStreamDone: the stream also ends at the first failed entry
InnerStreamDoneOrFailed(f) ==
    /\ jobs > 0
    /\ \/ FinishedEntries(f) = Entries(f)
       \/ \E e \in Entries(f) : entry[f][e] = "err"

\* buffer_unordered(jobs) ends when it has pulled every entry and nothing is
\* in progress; with jobs = 0 it pulls nothing and never ends
InnerStreamDone(f) == jobs > 0 /\ FinishedEntries(f) = Entries(f)

\* a faulty variant of WriterLockFree: the lock is taken shared (read())
WriterLockShared(f) == f \in Sources

\* tokio's RwLock::write() is granted while no other guard is held
WriterLockFree(f) == \A e \in Entries(f) : entry[f][e] # "write"

\* the job's future is ready: notify logs its result and bar_completed.inc(1)
Notify(f, res) ==
    /\ job' = [job EXCEPT ![f] = "done"]
    /\ notified' = [notified EXCEPT ![f] = Append(@, res)]
    /\ bar_completed' = bar_completed + 1

\* the outer stream pulls the next source; open_inout runs archive_reader
StartFile(f) ==
    /\ mainpc = "stream"
    /\ f = next_source
    /\ OuterHasRoom
    /\ next_source' = next_source + 1
    /\ \E reader \in {"ok", "err"} :
         IF reader = "ok"
         THEN job' = [job EXCEPT ![f] = "open_writer"]
              /\ UNCHANGED <<notified, bar_completed>>
         ELSE Notify(f, "err")
    /\ UNCHANGED <<mainpc, jobs_fs, cli_jobs, jobs, entry, appended, opened,
                   closed, evars, nvars, ovars, xvars>>

\* open_inout: ArchiveWriter::open_zip / open_7z returns
WriterOpened(f) ==
    /\ job[f] = "open_writer"
    /\ \E writer \in {"ok", "err"} :
         IF writer = "ok"
         THEN job' = [job EXCEPT ![f] = "running"]
              /\ opened' = [opened EXCEPT ![f] = @ + 1]
              /\ UNCHANGED <<notified, bar_completed>>
         ELSE Notify(f, "err") /\ UNCHANGED opened
    /\ UNCHANGED <<mainpc, jobs_fs, cli_jobs, jobs, next_source, entry, appended,
                   closed, evars, nvars, ovars, xvars>>

\* a faulty variant of read_ok: the test ar_size == 0 is left out
read_ok_unless_error(read) == read # "error"

\* convert_entry goes on to transcode: read_file(..)? returned Ok and
\* ar_size is not 0
read_ok(read) == read = "data"

\* convert_all: the inner stream pulls the next entry; its task reads the
\* entry and spawns transcode; a failed read ends the task with an Err, which
\* for_each logs with error!
StartEntry(f, e) ==
    /\ job[f] = "running"
    /\ entry[f][e] = "pending"
    /\ \A d \in Entries(f) : d < e => entry[f][d] # "pending"
    /\ InnerHasRoom(f)
    /\ \E read \in {"data", "empty", "error"} :
         /\ readres' = [readres EXCEPT ![f][e] = read]
         /\ entry' = [entry EXCEPT ![f][e] = IF read_ok(read) THEN "transcode" ELSE "err"]
         /\ failures' = [failures EXCEPT ![f][e] = IF read_ok(read) THEN @ ELSE @ + 1]
    /\ UNCHANGED <<mainpc, jobs_fs, cli_jobs, jobs, next_source, job, appended,
                   opened, closed, notified, bar_completed, attempts, nvars, ovars,
                   xvars>>

\* convert_all: the spawned transcode task is joined
TranscodeDone(f, e) ==
    /\ job[f] = "running"
    /\ entry[f][e] = "transcode"
    /\ \E res \in {"ok", "image_error", "panic"} :
         /\ entry' = [entry EXCEPT ![f][e] = IF res = "ok" THEN "lock_wait" ELSE "err"]
         /\ failures' = [failures EXCEPT ![f][e] = IF res = "ok" THEN @ ELSE @ + 1]
    /\ UNCHANGED <<mainpc, jobs_fs, cli_jobs, jobs, next_source, job, appended,
                   opened, closed, notified, bar_completed, readres, attempts,
                   nvars, ovars, xvars>>

\* convert_all: writer.write().await is granted and write_all starts
AcquireWriter(f, e) ==
    /\ job[f] = "running"
    /\ entry[f][e] = "lock_wait"
    /\ WriterLockFree(f)
    /\ entry' = [entry EXCEPT ![f][e] = "write"]
    /\ attempts' = [attempts EXCEPT ![f][e] = @ + 1]
    /\ UNCHANGED <<mainpc, jobs_fs, cli_jobs, jobs, next_source, job, appended,
                   opened, closed, notified, bar_completed, readres, failures,
                   nvars, ovars, xvars>>

\* convert_all: write_all returns and the guard is dropped
WriteDone(f, e) ==
    /\ job[f] = "running"
    /\ entry[f][e] = "write"
    /\ \E res \in {"ok", "err"} :
         /\ entry' = [entry EXCEPT ![f][e] = res]
         /\ appended' = [appended EXCEPT ![f][e] = IF res = "ok" THEN @ + 1 ELSE @]
         /\ failures' = [failures EXCEPT ![f][e] = IF res = "ok" THEN @ ELSE @ + 1]
    /\ UNCHANGED <<mainpc, jobs_fs, cli_jobs, jobs, next_source, job, opened,
                   closed, notified, bar_completed, readres, attempts, nvars, ovars,
                   xvars>>

\* convert_all: the inner stream has ended, inout.writer.close() is called
CloseWriter(f) ==
    /\ job[f] = "running"
    /\ InnerStreamDone(f)
    /\ job' = [job EXCEPT ![f] = "closing"]
    /\ closed' = [closed EXCEPT ![f] = @ + 1]
    /\ UNCHANGED <<mainpc, jobs_fs, cli_jobs, jobs, next_source, entry, appended,
                   opened, notified, bar_completed, evars, nvars, ovars, xvars>>

\* convert_all: close() returns
WriterClosed(f) ==
    /\ job[f] = "closing"
    /\ \E res \in {"ok", "err"} :
         IF res = "ok"
         THEN job' = [job EXCEPT ![f] = "metadata"]
              /\ UNCHANGED <<notified, bar_completed>>
         ELSE Notify(f, "err")
    /\ UNCHANGED <<mainpc, jobs_fs, cli_jobs, jobs, next_source, entry, appended,
                   opened, closed, evars, nvars, ovars, xvars>>

\* main: the metadata of the source is read for the size report
SourceMetadata(f) ==
    /\ job[f] = "metadata"
    /\ \E res \in {"ok", "err"} : Notify(f, res)
    /\ UNCHANGED <<mainpc, jobs_fs, cli_jobs, jobs, next_source, entry, appended,
                   opened, closed, evars, nvars, ovars, xvars>>

\* main: the outer stream has ended, "Complete" is logged
Complete ==
    /\ mainpc = "stream"
    /\ OuterStreamDone
    /\ mainpc' = "complete"
    /\ UNCHANGED <<jobs_fs, cli_jobs, jobs, next_source, job, entry, appended,
                   opened, closed, notified, bar_completed, evars, nvars, ovars, xvars>>

NextPipe ==
    \/ ResolveSources
    \/ EstablishOutdir
    \/ Startup
    \/ \E f \in Sources : StartFile(f)
    \/ \E f \in Sources : WriterOpened(f)
    \/ \E f \in Sources : \E e \in Entries(f) : StartEntry(f, e)
    \/ \E f \in Sources : \E e \in Entries(f) : TranscodeDone(f, e)
    \/ \E f \in Sources : \E e \in Entries(f) : AcquireWriter(f, e)
    \/ \E f \in Sources : \E e \in Entries(f) : WriteDone(f, e)
    \/ \E f \in Sources : CloseWriter(f)
    \/ \E f \in Sources : WriterClosed(f)
    \/ \E f \in Sources : SourceMetadata(f)
    \/ Complete

Spec == InitPipe /\ [][NextPipe]_vars


(***************************************************************************)
(* The claims about the pipeline.                                          *)
(***************************************************************************)
Max(a, b) == IF a >= b THEN a ELSE b

\* C1: at every moment at most F = jobs_fs file jobs are in flight, and within
\* each file job at most E entry tasks (read -> transcode -> append) are in
\* flight, E being the budget derived from the command line, jobs div F.
C1_BoundedConcurrency ==
    /\ Cardinality(InFlightFiles) <= jobs_fs
    /\ \A f \in Sources : Cardinality(InFlightEntries(f)) <= cli_jobs \div jobs_fs

\* F = 2 and a budget of 4 (E = 2): two files run, two entry tasks of the first
\* run and a third entry waits for a slot
C1_Witness ==
    /\ jobs_fs = 2 /\ cli_jobs = 4
    /\ Cardinality(InFlightFiles) = 2
    /\ Cardinality(InFlightEntries(1)) = 2
    /\ \E e \in Entries(1) : entry[1][e] = "pending"

\* C2: once main has started the stream, the entry-level budget is
\* floor(jobs / F) with a minimum of 1.
C2_EntryBudgetMinOne ==
    mainpc \in {"stream", "complete"} => jobs = Max(1, cli_jobs \div jobs_fs)

\* C3: at most one write_all is executing on the writer of a file job at any
\* time.
C3_SingleAppend ==
    \A f \in Sources : Cardinality({e \in Entries(f) : entry[f][e] = "write"}) <= 1

\* one entry task appends while another of the same job waits for the lock
C3_Witness ==
    \E f \in Sources : \E d, e \in Entries(f) :
        entry[f][d] = "write" /\ entry[f][e] = "lock_wait"

\* nothing is left to do: every awaited step has returned and neither stream
\* can pull or end
Quiescent == ~ENABLED NextPipe

\* C4: the writer of a file job whose reader and writer opened is closed
\* exactly once: never twice, never before it is opened, only when every entry
\* task of the job has finished (so none appends or starts to append after
\* it), and it has been closed when the run has nothing left to do, however
\* many entries failed.
C4_ClosedOnceAfterEntries ==
    \A f \in Sources :
        /\ closed[f] <= 1
        /\ closed[f] <= opened[f]
        /\ closed[f] = 1 => FinishedEntries(f) = Entries(f)
        /\ (job[f] = "done" /\ opened[f] = 1) => closed[f] = 1
        /\ (Quiescent /\ opened[f] = 1) => closed[f] = 1

\* C5: an entry task that fails skips only its own entry: no entry is appended
\* twice, a failed entry is not appended, when the writer is closed every
\* entry that did not fail itself has been appended exactly once, and a job
\* with a failed entry has closed its writer and delivered its result when the
\* run has nothing left to do.
C5_FailureSkipsOnlyThatEntry ==
    \A f \in Sources :
        /\ \A e \in Entries(f) : appended[f][e] <= 1
        /\ \A e \in Entries(f) : entry[f][e] = "err" => appended[f][e] = 0
        /\ closed[f] >= 1 =>
              \A e \in Entries(f) : entry[f][e] # "err" => appended[f][e] = 1
        /\ (job[f] = "done" /\ opened[f] = 1) => closed[f] >= 1
        /\ (Quiescent /\ \E e \in Entries(f) : entry[f][e] = "err") =>
              closed[f] = 1 /\ job[f] = "done"

\* the first entry failed, a later sibling was appended, the writer was closed
C5_Witness ==
    /\ job[1] = "done" /\ closed[1] = 1
    /\ entry[1][1] = "err"
    /\ \E e \in Entries(1) : entry[1][e] = "ok" /\ appended[1][e] = 1

\* C6: every source yields exactly one result and one increment of the
\* completion count: never two, a job is over exactly when its one result went
\* to notify, the count is the number of results, and every source has its
\* result when main reaches "Complete" and when a run that started the stream
\* has nothing left to do, whichever jobs failed.
C6_OneOutcomePerSource ==
    /\ \A f \in Sources : Len(notified[f]) <= 1
    /\ \A f \in Sources : job[f] = "done" <=> Len(notified[f]) = 1
    /\ bar_completed = Cardinality({f \in Sources : Len(notified[f]) = 1})
    /\ mainpc = "complete" =>
          /\ \A f \in Sources : Len(notified[f]) = 1
          /\ bar_completed = NumFiles
    /\ (Quiescent /\ mainpc \in {"stream", "complete"}) =>
          /\ \A f \in Sources : Len(notified[f]) = 1
          /\ bar_completed = NumFiles


\* C18: once main runs the stream there is always a step left until "Complete"
\* is reached: with every awaited step returning, neither stage waits forever
\* with work remaining.
C18_RunCompletes ==
    (Quiescent /\ mainpc \in {"stream", "complete"}) => mainpc = "complete"


\* C16: the only error that ends the run early is a failure to establish the
\* output directory: in every other run (whatever spec was wrong, whichever
\* reader, writer, entry or close failed) main reaches "Complete" with every
\* source processed.
C16_OnlyOutdirFatal ==
    Quiescent =>
        \/ mainpc = "outdir_failed"
        \/ mainpc = "complete" /\ \A f \in Sources : Len(notified[f]) = 1


\* C23: write_all is called at most once for an entry and succeeds at most
\* once; an entry whose read returned zero bytes or an error has no write_all
\* call and no append, has ended as a failure, and exactly one error line was
\* logged for it.
C23_FailedReadNeverAppended ==
    \A f \in Sources : \A e \in Entries(f) :
        /\ appended[f][e] <= 1
        /\ attempts[f][e] <= 1
        /\ appended[f][e] <= attempts[f][e]
        /\ readres[f][e] \in {"empty", "error"} =>
              /\ attempts[f][e] = 0 /\ appended[f][e] = 0
              /\ entry[f][e] = "err"
              /\ failures[f][e] = 1

\* the first entry of a job was empty, the second could not be read, the third
\* was appended, and the job is over
C23_Witness ==
    /\ readres[1][1] = "empty" /\ readres[1][2] = "error"
    /\ failures[1][1] = 1 /\ failures[1][2] = 1
    /\ appended[1][3] = 1
    /\ job[1] = "done"

====
